---- MODULE Spec2Model ----
(***************************************************************************)
(* A model of the slot pool, allocation search, entry validation and exit  *)
(* processing of src/parking_models.py (classes ParkingRules, Vehicle,     *)
(* Slot and ParkingLot).                                                   *)
(*                                                                         *)
(* Time is counted in whole hours since midnight of day 0.  Money is       *)
(* counted in hundredths of a rupee, so that round(fee, 2) is an integer.  *)
(* A Vehicle object is identified by its index in the heap `vehicles`; its *)
(* ticket_id (uuid4 prefix, taken to be collision free) is a field.        *)
(***************************************************************************)
EXTENDS Integers, Sequences, FiniteSets, TLC

\* ------------------------------------------------------------------ bounds
\* Slots per vehicle type and level in each section (the code builds 15, 10
\* and 6; the model scales the pool down, keeping levels, sections and types).
RegularSlots == 1
VipSlots == 1
EvSlots == 1
\* Completed sessions recorded on one Vehicle object.
MaxSessions == 3
\* Requests made of the pool in one behaviour: by concurrent callers, and by
\* the single caller that fills the pool.
MaxCalls == 3
MaxFillCalls == 8
\* the calls of two callers who park one vehicle and process its exit
MaxExitCalls == 4
\* Requests made by the caller whose vehicle has a history.
MaxPolicyCalls == 2
\* The clock of a long stay is advanced up to MaxFeeHour.
MaxFeeHour == 760
\* Requests made by the caller whose vehicle overstays again and again, and
\* the hour up to which its clock is advanced.
MaxWarnCalls == 7
MaxWarnHour == 83
\* The clock starts at StartHour and is advanced up to MaxHour.
StartHour == 8
MaxHour == 34
\* record_re_entry is called while re_entry_count is below this.
MaxReEntryCount == 4

\* --------------------------------------------------------------- constants
VehicleTypes == {"Small", "Medium", "Large"}
CustomerTypes == {"Regular", "VIP"}
Sections == {"Regular", "VIP", "EV"}
Levels == {1, 2}
Threads == {1, 2}

NoVehicle == 0
NoTime == -1
NoSlot == [level |-> 0, section |-> "None", vehicle_type |-> "None", idx |-> 0]
NoTicket == 0

\* The Vehicle objects the callers hold.
VehIds == {1, 2}
\* The license plates callers present.
Plates == {1, 2}
\* A ticket id that no Vehicle object carries.
UnknownTicket == Cardinality(VehIds) + 1

\* ParkingLot.__init__: slots per vehicle type and level in the Regular, VIP
\* and EV section of the code's pool (the model's pool is scaled down).
RegularPerType == 15
VipPerType == 10
EvPerType == 6

\* ParkingRules
TimeLimitRegular == 24
TimeLimitVip == 720
MaxReEntries == 3
ReEntryWindow == 24
ReEntryFee == 2000
PenaltyPerHour == 2500
MaxOverstayPenalty == 50000
WarningLimit == 3

\* TIME_LIMITS with the Regular limit for every customer type.
TIME_LIMITS_regular_for_all(customer_type) == TimeLimitRegular

TIME_LIMITS(customer_type) ==
    IF customer_type = "Regular" THEN TimeLimitRegular ELSE TimeLimitVip

DAILY_RATES(vehicle_type) ==
    CASE vehicle_type = "Small" -> 5000
      [] vehicle_type = "Medium" -> 10000
      [] OTHER -> 15000

\* The monthly rate without its 30% discount.
MONTHLY_MEMBERSHIP_RATES_undiscounted(vehicle_type) == DAILY_RATES(vehicle_type) * 30

\* round(rate * 30 * 0.7, 2)
MONTHLY_MEMBERSHIP_RATES(vehicle_type) == (DAILY_RATES(vehicle_type) * 30 * 7) \div 10

\* 'peak_hours': ['09:00-11:00', '17:00-19:00'], compared as 'HH:MM' strings;
\* on whole hours the comparison start <= current_time <= end is on the hour.
PeakHours == {<<9, 11>>, <<17, 19>>}

\* ------------------------------------------------------------------- state
VARIABLES
    slots,       \* ParkingLot.slots: slot id -> [vehicle, allocation_time, is_occupied]
    vehicles,    \* the Vehicle objects: id -> fields
    vip_passes,  \* ParkingLot.vip_passes: license_plate -> expiry
    lock,        \* ParkingLot.lock (RLock): [owner, count]
    now,         \* datetime.now(), in hours
    pc,          \* per thread: where it is inside a ParkingLot call
    arg,         \* per thread: the arguments of the call in progress
    found,       \* per thread: the local `slot` of the call in progress
    ret,         \* what the last completed call returned, until the next call starts
    calls        \* requests the callers may still make

vars == <<slots, vehicles, vip_passes, lock, now, pc, arg, found, ret, calls>>

\* ------------------------------------------------------------------- slots
\* __init__ without its loop for the EV section.
SlotsPerSection_no_ev(section) ==
    CASE section = "Regular" -> RegularSlots
      [] section = "VIP" -> VipSlots
      [] OTHER -> 0

SlotsPerSection(section) ==
    CASE section = "Regular" -> RegularSlots
      [] section = "VIP" -> VipSlots
      [] OTHER -> EvSlots

MaxPerSection ==
    IF RegularSlots >= VipSlots /\ RegularSlots >= EvSlots THEN RegularSlots
    ELSE IF VipSlots >= EvSlots THEN VipSlots ELSE EvSlots

\* ParkingLot.__init__: the slots created for each level, section, type
SlotIds ==
    {[level |-> l, section |-> s, vehicle_type |-> vt, idx |-> i] :
        l \in Levels, s \in Sections, vt \in VehicleTypes, i \in 1..MaxPerSection}
    \ {x \in [level : Levels, section : Sections, vehicle_type : VehicleTypes,
              idx : 1..MaxPerSection] : x.idx > SlotsPerSection(x.section)}

\* The id __init__ gives a slot: f"R{level}{type initial}{i+1:02d}" with R, V
\* or E for the section, as the tuple of its parts.
SlotId(s) ==
    <<CASE s.section = "Regular" -> "R" [] s.section = "VIP" -> "V" [] OTHER -> "E",
      s.level,
      CASE s.vehicle_type = "Small" -> "S" [] s.vehicle_type = "Medium" -> "M"
        [] OTHER -> "L",
      s.idx>>

SectionRank(section) ==
    CASE section = "Regular" -> 0 [] section = "VIP" -> 1 [] OTHER -> 2

TypeRank(vehicle_type) ==
    CASE vehicle_type = "Small" -> 0 [] vehicle_type = "Medium" -> 1 [] OTHER -> 2

\* Position of a slot in the insertion order of the dict self.slots.
DictPos(s) ==
    (((s.level - 1) * 3 + SectionRank(s.section)) * 3 + TypeRank(s.vehicle_type))
        * MaxPerSection + s.idx

\* First element of a non-empty set of slots in dict order.
FirstInDict(S) == CHOOSE s \in S : \A u \in S : DictPos(s) <= DictPos(u)

EmptySlot == [vehicle |-> NoVehicle, allocation_time |-> NoTime, is_occupied |-> FALSE]

\* Vehicle.__init__
NewVehicle(vehicle_type, customer_type, license_plate, ticket) ==
    [vehicle_type |-> vehicle_type,
     customer_type |-> customer_type,
     license_plate |-> license_plate,
     ticket_id |-> ticket,
     allocation_time |-> NoTime,
     re_entry_count |-> 0,
     last_re_entry |-> NoTime,
     warnings_issued |-> 0,
     is_suspended |-> FALSE,
     suspension_reason |-> "",
     parking_sessions |-> << >>,
     total_parking_time |-> 0,
     total_fees_paid |-> 0,
     vip_pass_expiry |-> NoTime]


\* ----------------------------------------------------------------- Vehicle
\* Vehicle.can_re_enter at time t: the returned bool and the vehicle after it.
can_re_enter(v, t) ==
    IF v.re_entry_count >= MaxReEntries
    THEN [result |-> FALSE, vehicle |-> v]
    ELSE IF v.last_re_entry # NoTime /\ t - v.last_re_entry > ReEntryWindow
         THEN [result |-> ~v.is_suspended, vehicle |-> [v EXCEPT !.re_entry_count = 0]]
         ELSE [result |-> ~v.is_suspended, vehicle |-> v]

\* Vehicle.record_re_entry
record_re_entry(v, t) ==
    [v EXCEPT !.re_entry_count = @ + 1, !.last_re_entry = t]

\* Vehicle.add_parking_session
add_parking_session(v, entry_time, exit_time, slot_id) ==
    [v EXCEPT !.parking_sessions = Append(@, <<entry_time, exit_time, slot_id>>),
              !.total_parking_time = @ + (exit_time - entry_time)]

\* get_re_entry_fee charging the fee whatever the re-entry count.
get_re_entry_fee_unconditional(v) == ReEntryFee

\* Vehicle.get_re_entry_fee
get_re_entry_fee(v) == IF v.re_entry_count > 0 THEN ReEntryFee ELSE 0

\* issue_warning suspending only above the limit (`>` for `>=`).
issue_warning_above_limit(v) ==
    IF v.warnings_issued + 1 > WarningLimit
    THEN [v EXCEPT !.warnings_issued = @ + 1,
                   !.is_suspended = TRUE,
                   !.suspension_reason = "Multiple violations"]
    ELSE [v EXCEPT !.warnings_issued = @ + 1]

\* Vehicle.issue_warning
issue_warning(v) ==
    IF v.warnings_issued + 1 >= WarningLimit
    THEN [v EXCEPT !.warnings_issued = @ + 1,
                   !.is_suspended = TRUE,
                   !.suspension_reason = "Multiple violations"]
    ELSE [v EXCEPT !.warnings_issued = @ + 1]

\* -------------------------------------------------------------------- Slot
\* The pass test shared by is_expired and calculate_fee.
HasActivePass(v, t) ==
    v.customer_type = "VIP" /\ v.vip_pass_expiry # NoTime /\ t < v.vip_pass_expiry

\* is_expired comparing with >= instead of >.
is_expired_at_limit(sl, V, t) ==
    IF ~sl.is_occupied \/ sl.allocation_time = NoTime THEN FALSE
    ELSE IF HasActivePass(V[sl.vehicle], t) THEN FALSE
    ELSE LET time_limit == IF V[sl.vehicle].customer_type = "Regular"
                           THEN 24 ELSE 30 * 24
         IN  t - sl.allocation_time >= time_limit

\* Slot.is_expired for slot record sl, the heap V of vehicles, at time t.
is_expired(sl, V, t) ==
    IF ~sl.is_occupied \/ sl.allocation_time = NoTime THEN FALSE
    ELSE IF HasActivePass(V[sl.vehicle], t) THEN FALSE
    ELSE LET time_limit == IF V[sl.vehicle].customer_type = "Regular"
                           THEN 24 ELSE 30 * 24
         IN  t - sl.allocation_time > time_limit

\* n / d rounded to the nearest integer (n >= 0, d > 0).
RoundDiv(n, d) == (2 * n + d) \div (2 * d)

\* calculate_fee charging whole days, rounded up.
calculate_fee_whole_days(sl, V, t) ==
    IF ~sl.is_occupied \/ sl.allocation_time = NoTime THEN 0
    ELSE LET v == V[sl.vehicle]
             duration == t - sl.allocation_time
             days == IF duration > 24 THEN (duration + 23) \div 24 ELSE 1
             daily_rate == DAILY_RATES(v.vehicle_type)
             time_limit == TIME_LIMITS(v.customer_type)
             overstay_penalty ==
                 IF duration > time_limit
                 THEN IF (duration - time_limit) * PenaltyPerHour < MaxOverstayPenalty
                      THEN (duration - time_limit) * PenaltyPerHour
                      ELSE MaxOverstayPenalty
                 ELSE 0
         IN  IF HasActivePass(v, t) THEN overstay_penalty
             ELSE IF v.customer_type = "VIP"
                  THEN MONTHLY_MEMBERSHIP_RATES(v.vehicle_type) + overstay_penalty
                  ELSE daily_rate * days + overstay_penalty

\* calculate_fee with `base_fee = overstay_penalty` in place of `+=`.
calculate_fee_penalty_replaces_base(sl, V, t) ==
    IF ~sl.is_occupied \/ sl.allocation_time = NoTime THEN 0
    ELSE LET v == V[sl.vehicle]
             duration == t - sl.allocation_time
             day_hours == IF duration > 24 THEN duration ELSE 24
             daily_rate == DAILY_RATES(v.vehicle_type)
             time_limit == TIME_LIMITS(v.customer_type)
         IN  IF duration > time_limit
             THEN IF (duration - time_limit) * PenaltyPerHour < MaxOverstayPenalty
                  THEN (duration - time_limit) * PenaltyPerHour
                  ELSE MaxOverstayPenalty
             ELSE IF HasActivePass(v, t) THEN 0
             ELSE IF v.customer_type = "VIP"
                  THEN MONTHLY_MEMBERSHIP_RATES(v.vehicle_type)
                  ELSE RoundDiv(daily_rate * day_hours, 24)

\* Slot.calculate_fee, in hundredths of a rupee.
calculate_fee(sl, V, t) ==
    IF ~sl.is_occupied \/ sl.allocation_time = NoTime THEN 0
    ELSE LET v == V[sl.vehicle]
             duration == t - sl.allocation_time
             \* days_used = max(1, duration / 24), kept as hours over 24
             day_hours == IF duration > 24 THEN duration ELSE 24
             daily_rate == DAILY_RATES(v.vehicle_type)
             time_limit == TIME_LIMITS(v.customer_type)
             overstay_penalty ==
                 IF duration > time_limit
                 THEN IF (duration - time_limit) * PenaltyPerHour < MaxOverstayPenalty
                      THEN (duration - time_limit) * PenaltyPerHour
                      ELSE MaxOverstayPenalty
                 ELSE 0
         IN  IF HasActivePass(v, t) THEN overstay_penalty
             ELSE IF v.customer_type = "VIP"
                  THEN MONTHLY_MEMBERSHIP_RATES(v.vehicle_type) + overstay_penalty
                  ELSE RoundDiv(daily_rate * day_hours, 24) + overstay_penalty

\* ------------------------------------------------------- ParkingLot queries
\* _find_slot_in_section sorting by level with reverse=True.
find_slot_in_section_highest(S, vehicle_type, section) ==
    LET section_slots == {s \in SlotIds : /\ s.section = section
                                          /\ s.vehicle_type = vehicle_type
                                          /\ ~S[s].is_occupied}
        highest == {s \in section_slots : \A u \in section_slots : s.level >= u.level}
    IN  IF section_slots = {} THEN NoSlot ELSE FirstInDict(highest)

\* ParkingLot._find_slot_in_section: the free slots of the section and type,
\* stably sorted by level; the first of them, or NoSlot.
find_slot_in_section(S, vehicle_type, section) ==
    LET section_slots == {s \in SlotIds : /\ s.section = section
                                          /\ s.vehicle_type = vehicle_type
                                          /\ ~S[s].is_occupied}
        lowest == {s \in section_slots : \A u \in section_slots : s.level <= u.level}
    IN  IF section_slots = {} THEN NoSlot ELSE FirstInDict(lowest)

\* find_slot: the section lists chosen from (customer_type, is_ev)
preferred_sections(customer_type, is_ev) ==
    IF is_ev THEN <<"EV">>
    ELSE IF customer_type = "VIP" THEN <<"VIP">> ELSE <<"Regular">>

\* The fallback lists with their two sections exchanged.
fallback_sections_swapped(customer_type, is_ev) ==
    IF is_ev
    THEN IF customer_type = "VIP" THEN <<"Regular", "VIP">> ELSE <<"VIP", "Regular">>
    ELSE IF customer_type = "VIP" THEN <<"EV", "Regular">> ELSE <<"VIP", "EV">>

fallback_sections(customer_type, is_ev) ==
    IF is_ev
    THEN IF customer_type = "VIP" THEN <<"VIP", "Regular">> ELSE <<"Regular", "VIP">>
    ELSE IF customer_type = "VIP" THEN <<"Regular", "EV">> ELSE <<"EV", "VIP">>

\* The loop `for section in sections: slot = ...; if slot: return slot`.
RECURSIVE SearchSections(_, _, _)
SearchSections(S, vehicle_type, sections) ==
    IF sections = << >> THEN NoSlot
    ELSE LET slot == find_slot_in_section(S, vehicle_type, Head(sections))
         IN  IF slot # NoSlot THEN slot
             ELSE SearchSections(S, vehicle_type, Tail(sections))

\* find_slot without its loop over the fallback sections.
find_slot_preferred_only(S, vehicle_type, customer_type, is_ev) ==
    SearchSections(S, vehicle_type, preferred_sections(customer_type, is_ev))

\* ParkingLot.find_slot
find_slot(S, vehicle_type, customer_type, is_ev) ==
    LET slot == SearchSections(S, vehicle_type, preferred_sections(customer_type, is_ev))
    IN  IF slot # NoSlot THEN slot
        ELSE SearchSections(S, vehicle_type, fallback_sections(customer_type, is_ev))

\* The scan of release_slot and get_slot_by_ticket: the first slot in dict
\* order that is occupied by a vehicle carrying the ticket, or NoSlot.
TicketSlots(S, V, ticket_id) ==
    {s \in SlotIds : S[s].is_occupied /\ S[s].vehicle # NoVehicle
                     /\ V[S[s].vehicle].ticket_id = ticket_id}

get_slot_by_ticket(S, V, ticket_id) ==
    IF TicketSlots(S, V, ticket_id) = {} THEN NoSlot
    ELSE FirstInDict(TicketSlots(S, V, ticket_id))

\* ParkingLot.get_occupied_slots
get_occupied_slots(S) == {s \in SlotIds : S[s].is_occupied}

\* get_available_slots_count taking a slot for free when it has no allocation
\* time instead of when it is not occupied.
available_count_never_allocated(S, vehicle_type, section) ==
    Cardinality({s \in SlotIds : /\ s.vehicle_type = vehicle_type
                                 /\ s.section = section
                                 /\ S[s].allocation_time = NoTime})

\* ParkingLot.get_available_slots_count
available_count(S, vehicle_type, section) ==
    Cardinality({s \in SlotIds : /\ s.vehicle_type = vehicle_type
                                 /\ s.section = section
                                 /\ ~S[s].is_occupied})

get_available_slots_count(S) ==
    [vt \in VehicleTypes |-> [sec \in Sections |-> available_count(S, vt, sec)]]

\* ParkingLot.check_expired_slots
check_expired_slots(S, V, t) == {s \in SlotIds : is_expired(S[s], V, t)}

\* ParkingLot.get_system_status
get_system_status(S, V, t) ==
    [total_slots |-> Cardinality(DOMAIN S),
     occupied_slots |-> Cardinality(get_occupied_slots(S)),
     available_slots |-> Cardinality(DOMAIN S) - Cardinality(get_occupied_slots(S)),
     expired_slots |-> Cardinality(check_expired_slots(S, V, t)),
     available_counts |-> get_available_slots_count(S)]

\* ParkingLot.check_peak_hour_restrictions
check_peak_hour_restrictions(vehicle_type, t) ==
    \E p \in PeakHours : p[1] <= t % 24 /\ t % 24 <= p[2] /\ vehicle_type = "Large"

\* validate_vehicle_entry with the re-entry check made before the peak-hour
\* check.
validate_vehicle_entry_re_entry_first(S, V, v, t) ==
    LET re == can_re_enter(V[v], t)
    IN  IF V[v].is_suspended
        THEN [can_enter |-> FALSE, reason |-> "Vehicle suspended", vehicle |-> V[v]]
        ELSE IF ~re.result
        THEN [can_enter |-> FALSE, reason |-> "Maximum re-entries exceeded",
              vehicle |-> re.vehicle]
        ELSE IF check_peak_hour_restrictions(V[v].vehicle_type, t)
        THEN [can_enter |-> FALSE, reason |-> "Large vehicles restricted during peak hours",
              vehicle |-> re.vehicle]
        ELSE IF /\ V[v].customer_type = "Regular"
                /\ \E s \in SlotIds : /\ S[s].is_occupied
                                      /\ S[s].vehicle # NoVehicle
                                      /\ V[S[s].vehicle].license_plate = V[v].license_plate
        THEN [can_enter |-> FALSE, reason |-> "Vehicle already parked", vehicle |-> re.vehicle]
        ELSE [can_enter |-> TRUE, reason |-> "Entry allowed", vehicle |-> re.vehicle]

\* validate_vehicle_entry with the already-parked check made for every
\* customer type.
validate_vehicle_entry_all_tiers(S, V, v, t) ==
    LET re == can_re_enter(V[v], t)
    IN  IF V[v].is_suspended
        THEN [can_enter |-> FALSE, reason |-> "Vehicle suspended", vehicle |-> V[v]]
        ELSE IF check_peak_hour_restrictions(V[v].vehicle_type, t)
        THEN [can_enter |-> FALSE, reason |-> "Large vehicles restricted during peak hours",
              vehicle |-> V[v]]
        ELSE IF ~re.result
        THEN [can_enter |-> FALSE, reason |-> "Maximum re-entries exceeded",
              vehicle |-> re.vehicle]
        ELSE IF \E s \in SlotIds : /\ S[s].is_occupied
                                   /\ S[s].vehicle # NoVehicle
                                   /\ V[S[s].vehicle].license_plate = V[v].license_plate
        THEN [can_enter |-> FALSE, reason |-> "Vehicle already parked", vehicle |-> re.vehicle]
        ELSE [can_enter |-> TRUE, reason |-> "Entry allowed", vehicle |-> re.vehicle]

\* ParkingLot.validate_vehicle_entry for vehicle id v: the returned
\* (can_enter, reason) and the vehicle record after the call.
validate_vehicle_entry(S, V, v, t) ==
    LET re == can_re_enter(V[v], t)
    IN  IF V[v].is_suspended
        THEN [can_enter |-> FALSE, reason |-> "Vehicle suspended", vehicle |-> V[v]]
        ELSE IF check_peak_hour_restrictions(V[v].vehicle_type, t)
        THEN [can_enter |-> FALSE, reason |-> "Large vehicles restricted during peak hours",
              vehicle |-> V[v]]
        ELSE IF ~re.result
        THEN [can_enter |-> FALSE, reason |-> "Maximum re-entries exceeded",
              vehicle |-> re.vehicle]
        ELSE IF /\ V[v].customer_type = "Regular"
                /\ \E s \in SlotIds : /\ S[s].is_occupied
                                      /\ S[s].vehicle # NoVehicle
                                      /\ V[S[s].vehicle].license_plate = V[v].license_plate
        THEN [can_enter |-> FALSE, reason |-> "Vehicle already parked", vehicle |-> re.vehicle]
        ELSE [can_enter |-> TRUE, reason |-> "Entry allowed", vehicle |-> re.vehicle]


\* -------------------------------------------------------------------- lock
NoThread == 0
FreeLock == [owner |-> NoThread, count |-> 0]

\* A lock that never makes a caller wait.
CanAcquireAlways(l, t) == TRUE

\* threading.Lock in place of RLock: the owner cannot acquire again.
CanAcquire_not_reentrant(l, t) == l.owner = NoThread

\* threading.RLock: acquire succeeds when the lock is free or already held
\* by the calling thread.
CanAcquire(l, t) == l.owner = NoThread \/ l.owner = t

Acquire(l, t) == [owner |-> t, count |-> l.count + 1]

Release(l) == IF l.count <= 1 THEN FreeLock ELSE [l EXCEPT !.count = @ - 1]

\* A composite operation that enters without waiting for the lock.
CanAcquireNested_unguarded(l, t) == TRUE

\* `with self.lock:` entered by a method that the thread calls while it may
\* already hold the lock once (the nested with of find_slot,
\* get_slot_by_ticket and release_slot).
CanAcquireNested(l, t) == CanAcquire(l, t) /\ CanAcquire(Acquire(l, t), t)

\* ----------------------------------------------------------- call records
\* The dict get_system_status returns (without its rules text and timestamp),
\* before any status was asked for.
NoStatus == [total_slots |-> 0, occupied_slots |-> 0, available_slots |-> 0,
             expired_slots |-> 0,
             available_counts |-> [vt \in VehicleTypes |-> [sec \in Sections |-> 0]]]

\* The arguments and local variables of a call in progress.
NoArg == [vehicle |-> NoVehicle, is_ev |-> FALSE, ticket |-> NoTicket,
          status |-> NoStatus]

NoRet == [op |-> "none", thread |-> NoThread, time |-> NoTime,
          vehicle |-> NoVehicle, is_ev |-> FALSE, ticket |-> NoTicket,
          slot |-> NoSlot, success |-> FALSE, reason |-> "",
          base_fee |-> 0, re_entry_fee |-> 0, total_fee |-> 0,
          overstay |-> FALSE, warnings |-> 0, expired |-> {}, listed |-> {},
          status |-> NoStatus]

\* ------------------------------------------------------------------- Init
\* The Vehicle objects the callers have constructed: any type, customer type
\* and plate; ticket ids are distinct.  Plates are only compared for equality,
\* so the first object's plate is taken to be plate 1.
Fleets(ids) ==
    {F \in [ids -> [vehicle_type : VehicleTypes, customer_type : CustomerTypes,
                    license_plate : Plates]] : F[1].license_plate = 1}

InitFleet(ids, budget) ==
    /\ slots = [s \in SlotIds |-> EmptySlot]
    /\ \E F \in Fleets(ids) :
          vehicles = [v \in ids |->
                        NewVehicle(F[v].vehicle_type, F[v].customer_type,
                                   F[v].license_plate, v)]
    /\ vip_passes = [p \in Plates |-> NoTime]
    /\ lock = FreeLock
    /\ now = StartHour
    /\ pc = [t \in Threads |-> "idle"]
    /\ arg = [t \in Threads |-> NoArg]
    /\ found = [t \in Threads |-> NoSlot]
    /\ ret = NoRet
    /\ calls = budget

Init == InitFleet(VehIds, MaxCalls)

Tickets == DOMAIN vehicles \cup {UnknownTicket}

\* A caller starts a request: the result of the previous one is dropped.
StartCall ==
    /\ calls > 0
    /\ calls' = calls - 1

\* The thread returns r from its call and leaves the outermost `with`.
Return(t, r) ==
    /\ pc' = [pc EXCEPT ![t] = "idle"]
    /\ arg' = [arg EXCEPT ![t] = NoArg]
    /\ found' = [found EXCEPT ![t] = NoSlot]
    /\ ret' = [r EXCEPT !.thread = t, !.time = now]

\* ---------------------------------------------------------- allocate_slot
\* allocate_slot: `with self.lock:` and the call of find_slot.
AllocateSlotEnter(t, v, is_ev) ==
    /\ CanAcquireNested(lock, t)
    /\ lock' = Acquire(lock, t)
    /\ found' = [found EXCEPT ![t] =
                    find_slot(slots, vehicles[v].vehicle_type,
                              vehicles[v].customer_type, is_ev)]
    /\ arg' = [arg EXCEPT ![t] = [NoArg EXCEPT !.vehicle = v, !.is_ev = is_ev]]
    /\ pc' = [pc EXCEPT ![t] = "allocate"]
    /\ ret' = NoRet
    /\ UNCHANGED <<slots, vehicles, vip_passes, now>>

AllocateSlotCall(t, v, is_ev) ==
    /\ pc[t] = "idle"
    /\ StartCall
    /\ AllocateSlotEnter(t, v, is_ev)

AllocateRet(t, slot) ==
    [NoRet EXCEPT !.op = "allocate_slot", !.vehicle = arg[t].vehicle,
                  !.is_ev = arg[t].is_ev, !.slot = slot, !.success = slot # NoSlot]

\* `if slot and slot.allocate(vehicle)`: no slot, or Slot.allocate's test
\* `if self.is_occupied: return False`; allocate_slot then returns None.
SlotAllocateCheck(t) ==
    /\ pc[t] = "allocate"
    /\ IF found[t] = NoSlot \/ slots[found[t]].is_occupied
       THEN /\ lock' = Release(lock)
            /\ Return(t, AllocateRet(t, NoSlot))
       ELSE /\ pc' = [pc EXCEPT ![t] = "allocate_write"]
            /\ UNCHANGED <<lock, arg, found, ret>>
    /\ UNCHANGED <<slots, vehicles, vip_passes, now, calls>>

\* Slot.allocate's assignments, and allocate_slot's `return slot`.
SlotAllocateWrite(t) ==
    /\ pc[t] = "allocate_write"
    /\ slots' = [slots EXCEPT ![found[t]] =
                    [vehicle |-> arg[t].vehicle, allocation_time |-> now,
                     is_occupied |-> TRUE]]
    /\ vehicles' = [vehicles EXCEPT ![arg[t].vehicle].allocation_time = now]
    /\ lock' = Release(lock)
    /\ Return(t, AllocateRet(t, found[t]))
    /\ UNCHANGED <<vip_passes, now, calls>>

\* ----------------------------------------------------------- release_slot
\* Slot.release without `self.vehicle = None`.
SlotRelease_keeps_vehicle(S, s) ==
    IF ~S[s].is_occupied THEN S
    ELSE [S EXCEPT ![s].is_occupied = FALSE]

\* Slot.release applied to slot s of S.
SlotRelease(S, s) ==
    IF ~S[s].is_occupied THEN S
    ELSE [S EXCEPT ![s].vehicle = NoVehicle, ![s].is_occupied = FALSE]

\* The body of release_slot: the pool after it and the slot it returns.
release_slot(S, V, ticket_id) ==
    LET slot == get_slot_by_ticket(S, V, ticket_id)
    IN  IF slot = NoSlot THEN [slots |-> S, slot |-> NoSlot]
        ELSE [slots |-> SlotRelease(S, slot), slot |-> slot]

ReleaseSlot(t, ticket_id) ==
    /\ pc[t] = "idle"
    /\ StartCall
    /\ CanAcquire(lock, t)
    /\ LET r == release_slot(slots, vehicles, ticket_id)
       IN  /\ slots' = r.slots
           /\ Return(t, [NoRet EXCEPT !.op = "release_slot", !.ticket = ticket_id,
                                      !.slot = r.slot, !.success = r.slot # NoSlot])
    /\ UNCHANGED <<vehicles, vip_passes, lock, now>>

\* --------------------------------------------------- process_vehicle_exit
\* process_vehicle_exit up to `if not slot: return {...}`: the lookup by
\* get_slot_by_ticket under the lock.
ProcessVehicleExitCall(t, ticket_id) ==
    /\ pc[t] = "idle"
    /\ StartCall
    /\ CanAcquireNested(lock, t)
    /\ LET slot == get_slot_by_ticket(slots, vehicles, ticket_id)
       IN  IF slot = NoSlot
           THEN /\ Return(t, [NoRet EXCEPT !.op = "process_vehicle_exit",
                                           !.ticket = ticket_id,
                                           !.reason = "Ticket not found"])
                /\ UNCHANGED lock
           ELSE /\ Len(vehicles[slots[slot].vehicle].parking_sessions) < MaxSessions
                /\ lock' = Acquire(lock, t)
                /\ found' = [found EXCEPT ![t] = slot]
                /\ arg' = [arg EXCEPT ![t] = [NoArg EXCEPT !.ticket = ticket_id]]
                /\ pc' = [pc EXCEPT ![t] = "exit"]
                /\ ret' = NoRet
    /\ UNCHANGED <<slots, vehicles, vip_passes, now>>

\* The rest of process_vehicle_exit for the slot found, at time t: fees,
\* warning, session, release and the result dict.
process_vehicle_exit(S, V, slot, ticket_id, t) ==
    LET v == S[slot].vehicle
        fee == calculate_fee(S[slot], V, t)
        re_entry_fee == get_re_entry_fee(V[v])
        total_fee == fee + re_entry_fee
        is_overstay == is_expired(S[slot], V, t)
        warned == IF is_overstay THEN issue_warning(V[v]) ELSE V[v]
        recorded == add_parking_session(warned, S[slot].allocation_time, t, slot)
        paid == [recorded EXCEPT !.total_fees_paid = @ + total_fee]
        V2 == [V EXCEPT ![v] = paid]
        released == release_slot(S, V2, ticket_id)
    IN  [slots |-> released.slots,
         vehicles |-> V2,
         result |-> [NoRet EXCEPT !.op = "process_vehicle_exit",
                                  !.ticket = ticket_id,
                                  !.vehicle = v,
                                  !.slot = released.slot,
                                  !.success = TRUE,
                                  !.base_fee = fee,
                                  !.re_entry_fee = re_entry_fee,
                                  !.total_fee = total_fee,
                                  !.overstay = is_overstay,
                                  !.warnings = paid.warnings_issued]]

\* Reading slot.vehicle of a slot that holds none raises AttributeError.
ProcessVehicleExitBody(t) ==
    /\ pc[t] = "exit"
    /\ IF slots[found[t]].vehicle = NoVehicle
       THEN /\ Return(t, [NoRet EXCEPT !.op = "process_vehicle_exit",
                                       !.ticket = arg[t].ticket,
                                       !.reason = "AttributeError"])
            /\ UNCHANGED <<slots, vehicles>>
       ELSE LET x == process_vehicle_exit(slots, vehicles, found[t],
                                          arg[t].ticket, now)
            IN  /\ vehicles' = x.vehicles
                /\ slots' = x.slots
                /\ Return(t, x.result)
    /\ lock' = Release(lock)
    /\ UNCHANGED <<vip_passes, now, calls>>

\* ------------------------------------------------- validate_vehicle_entry
ValidateRet(v, r) ==
    [NoRet EXCEPT !.op = "validate_vehicle_entry", !.vehicle = v,
                  !.success = r.can_enter, !.reason = r.reason]

ValidateVehicleEntry(t, v, is_ev) ==
    /\ pc[t] = "idle"
    /\ StartCall
    /\ CanAcquire(lock, t)
    /\ LET r == validate_vehicle_entry(slots, vehicles, v, now)
       IN  /\ vehicles' = [vehicles EXCEPT ![v] = r.vehicle]
           /\ Return(t, ValidateRet(v, r))
    /\ UNCHANGED <<slots, vip_passes, lock, now>>

\* ------------------------------------------------------------------- Next
Step(t) ==
    \/ \E v \in DOMAIN vehicles, is_ev \in BOOLEAN : AllocateSlotCall(t, v, is_ev)
    \/ SlotAllocateCheck(t)
    \/ SlotAllocateWrite(t)
    \/ \E ticket_id \in Tickets : ReleaseSlot(t, ticket_id)
    \/ \E ticket_id \in Tickets : ProcessVehicleExitCall(t, ticket_id)
    \/ ProcessVehicleExitBody(t)
    \/ \E v \in DOMAIN vehicles, is_ev \in BOOLEAN : ValidateVehicleEntry(t, v, is_ev)

Next == \E t \in Threads : Step(t)

\* Concurrent callers of the pool's operations.
Spec == Init /\ [][Next]_vars


\* ------------------------------------------------- a single caller, one car
\* One thread, one Vehicle object, allocate_slot and release_slot only: the
\* pool is filled and emptied slot by slot.
InitFill == InitFleet({1}, MaxFillCalls)

NextFill ==
    \/ \E v \in DOMAIN vehicles, is_ev \in BOOLEAN : AllocateSlotCall(1, v, is_ev)
    \/ SlotAllocateCheck(1)
    \/ SlotAllocateWrite(1)
    \/ \E ticket_id \in Tickets : ReleaseSlot(1, ticket_id)

SpecFill == InitFill /\ [][NextFill]_vars

\* ------------------------------------------------- two callers, one car
\* Two threads, one Vehicle object, allocate_slot and release_slot only:
\* the threads fill the pool between them until find_slot finds nothing.
StepRace(t) ==
    \/ \E v \in DOMAIN vehicles, is_ev \in BOOLEAN : AllocateSlotCall(t, v, is_ev)
    \/ SlotAllocateCheck(t)
    \/ SlotAllocateWrite(t)
    \/ \E ticket_id \in Tickets : ReleaseSlot(t, ticket_id)

NextRace == \E t \in Threads : StepRace(t)

SpecRace == InitFill /\ [][NextRace]_vars

\* ---------------------------------------------------------- entry requests
\* An entry request as the data flow of the documentation draws it: the
\* caller validates the vehicle and, if entry is allowed, allocates a slot.
EntryValidate(t, v, is_ev) ==
    /\ pc[t] = "idle"
    /\ StartCall
    \* the request has constructed its own Vehicle object
    /\ vehicles[v].allocation_time = NoTime
    /\ \A u \in Threads : arg[u].vehicle # v
    /\ CanAcquire(lock, t)
    /\ LET r == validate_vehicle_entry(slots, vehicles, v, now)
       IN  /\ vehicles' = [vehicles EXCEPT ![v] = r.vehicle]
           /\ ret' = [ValidateRet(v, r) EXCEPT !.thread = t, !.time = now]
           /\ IF r.can_enter
              THEN /\ pc' = [pc EXCEPT ![t] = "entry"]
                   /\ arg' = [arg EXCEPT ![t] = [NoArg EXCEPT !.vehicle = v,
                                                               !.is_ev = is_ev]]
              ELSE /\ pc' = [pc EXCEPT ![t] = "idle"]
                   /\ arg' = [arg EXCEPT ![t] = NoArg]
    /\ UNCHANGED <<slots, vip_passes, lock, now, found>>

EntryAllocate(t) ==
    /\ pc[t] = "entry"
    /\ AllocateSlotEnter(t, arg[t].vehicle, arg[t].is_ev)
    /\ UNCHANGED calls

StepEntry(t) ==
    \/ \E v \in DOMAIN vehicles, is_ev \in BOOLEAN : EntryValidate(t, v, is_ev)
    \/ EntryAllocate(t)
    \/ SlotAllocateCheck(t)
    \/ SlotAllocateWrite(t)
    \/ \E ticket_id \in Tickets : ProcessVehicleExitCall(t, ticket_id)
    \/ ProcessVehicleExitBody(t)

NextEntry == \E t \in Threads : StepEntry(t)

SpecEntry == Init /\ [][NextEntry]_vars

\* ------------------------------------------------------- re-entry and time
\* datetime.now() advances.
TickHours == {12, 13}

Tick(d) ==
    /\ now + d <= MaxHour
    /\ now' = now + d
    /\ UNCHANGED <<slots, vehicles, vip_passes, lock, pc, arg, found, ret, calls>>

\* A caller records a re-entry on a Vehicle object.
RecordReEntry(v) ==
    /\ vehicles[v].re_entry_count < MaxReEntryCount
    /\ vehicles' = [vehicles EXCEPT ![v] = record_re_entry(vehicles[v], now)]
    /\ UNCHANGED <<slots, vip_passes, lock, now, pc, arg, found, ret, calls>>

\* A caller asks a Vehicle object whether it may re-enter.
CanReEnter(t, v) ==
    /\ pc[t] = "idle"
    /\ StartCall
    /\ LET r == can_re_enter(vehicles[v], now)
       IN  /\ vehicles' = [vehicles EXCEPT ![v] = r.vehicle]
           /\ ret' = [NoRet EXCEPT !.op = "can_re_enter", !.thread = t, !.time = now,
                                   !.vehicle = v, !.success = r.result]
    /\ UNCHANGED <<slots, vip_passes, lock, now, pc, arg, found>>

InitReEntry == InitFleet({1}, MaxCalls)

NextReEntry ==
    \/ \E d \in TickHours : Tick(d)
    \/ \E v \in DOMAIN vehicles : RecordReEntry(v)
    \/ \E v \in DOMAIN vehicles : CanReEnter(1, v)
    \/ \E v \in DOMAIN vehicles, is_ev \in BOOLEAN : ValidateVehicleEntry(1, v, is_ev)

SpecReEntry == InitReEntry /\ [][NextReEntry]_vars

\* ------------------------------------------------------- entry policy checks
\* Vehicle objects with a history: one that was warned WarningLimit times by
\* process_vehicle_exit is suspended.
Warned(v, n) ==
    IF n = 0 THEN v
    ELSE IF n = 1 THEN issue_warning(v)
    ELSE IF n = 2 THEN issue_warning(issue_warning(v))
    ELSE issue_warning(issue_warning(issue_warning(v)))

\* A Vehicle object on which record_re_entry was called n times at time t.
ReEntered(v, n, t) ==
    IF n = 0 THEN v
    ELSE IF n = 1 THEN record_re_entry(v, t)
    ELSE IF n = 2 THEN record_re_entry(record_re_entry(v, t), t)
    ELSE record_re_entry(record_re_entry(record_re_entry(v, t), t), t)

\* The histories of the vehicle that asks for entry: warnings and re-entries.
WarningCounts == {0, WarningLimit}
ReEntryCounts == {0, MaxReEntries - 1, MaxReEntries}

\* Vehicle object 1 is new; the last object has a history.
Applicant == Cardinality(VehIds)

InitPolicy ==
    /\ slots = [s \in SlotIds |-> EmptySlot]
    /\ \E F \in Fleets(VehIds), w \in WarningCounts, n \in ReEntryCounts :
          vehicles = [v \in VehIds |->
                        LET nv == NewVehicle(F[v].vehicle_type, F[v].customer_type,
                                             F[v].license_plate, v)
                        IN  IF v = Applicant
                            THEN ReEntered(Warned(nv, w), n, StartHour)
                            ELSE nv]
    /\ vip_passes = [p \in Plates |-> NoTime]
    /\ lock = FreeLock
    /\ now = StartHour
    /\ pc = [t \in Threads |-> "idle"]
    /\ arg = [t \in Threads |-> NoArg]
    /\ found = [t \in Threads |-> NoSlot]
    /\ ret = NoRet
    /\ calls = MaxPolicyCalls

\* One caller: it parks vehicles and asks for validation while the clock
\* advances into and out of the peak hours and past the re-entry window.
NextPolicy ==
    \/ \E d \in TickHours : Tick(d)
    \/ \E v \in DOMAIN vehicles, is_ev \in BOOLEAN : AllocateSlotCall(1, v, is_ev)
    \/ SlotAllocateCheck(1)
    \/ SlotAllocateWrite(1)
    \/ \E v \in DOMAIN vehicles, is_ev \in BOOLEAN : ValidateVehicleEntry(1, v, is_ev)

SpecPolicy == InitPolicy /\ [][NextPolicy]_vars

\* ------------------------------------------------------ long stays and fees
\* ParkingLot.check_expired_slots
\* check_expired_slots releasing every slot it lists (the force_release() of
\* the documentation's state diagram).
CheckExpiredSlots_releasing(t) ==
    /\ pc[t] = "idle"
    /\ StartCall
    /\ CanAcquire(lock, t)
    /\ ret' = [NoRet EXCEPT !.op = "check_expired_slots", !.thread = t, !.time = now,
                            !.expired = check_expired_slots(slots, vehicles, now)]
    /\ slots' = [s \in SlotIds |->
                    IF s \in check_expired_slots(slots, vehicles, now)
                    THEN SlotRelease(slots, s)[s] ELSE slots[s]]
    /\ UNCHANGED <<vehicles, vip_passes, lock, now, pc, arg, found>>

CheckExpiredSlots(t) ==
    /\ pc[t] = "idle"
    /\ StartCall
    /\ CanAcquire(lock, t)
    /\ ret' = [NoRet EXCEPT !.op = "check_expired_slots", !.thread = t, !.time = now,
                            !.expired = check_expired_slots(slots, vehicles, now)]
    /\ UNCHANGED <<slots, vehicles, vip_passes, lock, now, pc, arg, found>>

\* datetime.now() advances: the clock is read this many hours after StartHour
\* (up to and beyond the limits of 24 and 720 hours, and the hours at which
\* the overstay penalty reaches its maximum).
ElapsedHours == {24, 25, 30, 44, 50, 720, 721, 745}

FeeClock == {StartHour + e : e \in ElapsedHours} \cap (0..MaxFeeHour)

FeeTick(h) ==
    /\ h > now
    /\ now' = h
    /\ UNCHANGED <<slots, vehicles, vip_passes, lock, pc, arg, found, ret, calls>>

\* The values of Vehicle.vip_pass_expiry the caller presents: no pass, a pass
\* that ends during a short stay, after 30 days, and later than that.
PassExpiries == {NoTime, StartHour + 30, StartHour + 720, StartHour + 800}

InitFee ==
    /\ slots = [s \in SlotIds |-> EmptySlot]
    /\ \E F \in Fleets({1}), e \in PassExpiries :
          vehicles = [v \in {1} |->
                        [NewVehicle(F[v].vehicle_type, F[v].customer_type,
                                    F[v].license_plate, v)
                            EXCEPT !.vip_pass_expiry = e]]
    /\ vip_passes = [p \in Plates |-> NoTime]
    /\ lock = FreeLock
    /\ now = StartHour
    /\ pc = [t \in Threads |-> "idle"]
    /\ arg = [t \in Threads |-> NoArg]
    /\ found = [t \in Threads |-> NoSlot]
    /\ ret = NoRet
    /\ calls = MaxCalls

\* One caller parks a vehicle, lets time pass, asks for the expired slots and
\* processes the exit.
NextFee ==
    \/ \E h \in FeeClock : FeeTick(h)
    \/ \E v \in DOMAIN vehicles, is_ev \in BOOLEAN : AllocateSlotCall(1, v, is_ev)
    \/ SlotAllocateCheck(1)
    \/ SlotAllocateWrite(1)
    \/ CheckExpiredSlots(1)
    \/ \E ticket_id \in Tickets : ProcessVehicleExitCall(1, ticket_id)
    \/ ProcessVehicleExitBody(1)

SpecFee == InitFee /\ [][NextFee]_vars

\* ------------------------------------------------------- repeated overstays
\* datetime.now() advances by a day and an hour: a Regular vehicle parked
\* before it has overstayed after it.
OverstayHours == 25

WarnTick ==
    /\ now + OverstayHours <= MaxWarnHour
    /\ now' = now + OverstayHours
    /\ UNCHANGED <<slots, vehicles, vip_passes, lock, pc, arg, found, ret, calls>>

\* The Vehicle objects of the overstaying caller: Regular, Small, all
\* constructed with the same license plate.
InitWarn ==
    /\ InitFleet(VehIds, MaxWarnCalls)
    /\ \A v \in VehIds : /\ vehicles[v].customer_type = "Regular"
                         /\ vehicles[v].vehicle_type = "Small"
                         /\ vehicles[v].license_plate = 1

\* One caller parks vehicles, lets them overstay, processes their exits and
\* asks for validation.
NextWarn ==
    \/ WarnTick
    \/ \E v \in DOMAIN vehicles : AllocateSlotCall(1, v, FALSE)
    \/ SlotAllocateCheck(1)
    \/ SlotAllocateWrite(1)
    \/ \E v \in DOMAIN vehicles : ProcessVehicleExitCall(1, vehicles[v].ticket_id)
    \/ ProcessVehicleExitBody(1)
    \/ \E v \in DOMAIN vehicles : ValidateVehicleEntry(1, v, FALSE)

SpecWarn == InitWarn /\ [][NextWarn]_vars

\* ------------------------------------------------- one caller, step by step
\* A caller invokes Slot.allocate(vehicle) on the Slot object that its last
\* allocate_slot or release_slot returned: an occupied slot answers False and
\* is left alone.
SlotAllocateDirect(t, s, v) ==
    /\ pc[t] = "idle"
    /\ ret.op \in {"allocate_slot", "release_slot"}
    /\ ret.slot = s
    /\ StartCall
    /\ IF slots[s].is_occupied
       THEN /\ UNCHANGED <<slots, vehicles>>
            /\ ret' = [NoRet EXCEPT !.op = "Slot.allocate", !.thread = t, !.time = now,
                                    !.vehicle = v, !.slot = s, !.success = FALSE]
       ELSE /\ slots' = [slots EXCEPT ![s] = [vehicle |-> v, allocation_time |-> now,
                                              is_occupied |-> TRUE]]
            /\ vehicles' = [vehicles EXCEPT ![v].allocation_time = now]
            /\ ret' = [NoRet EXCEPT !.op = "Slot.allocate", !.thread = t, !.time = now,
                                    !.vehicle = v, !.slot = s, !.success = TRUE]
    /\ UNCHANGED <<vip_passes, lock, now, pc, arg, found>>

InitExit == InitFleet({1}, MaxCalls)

\* One caller and one Vehicle object: re-entries are recorded, the vehicle is
\* parked and released or exits, while the clock advances.
NextExit ==
    \/ \E d \in TickHours : Tick(d)
    \/ \E v \in DOMAIN vehicles : RecordReEntry(v)
    \/ \E v \in DOMAIN vehicles, is_ev \in BOOLEAN : AllocateSlotCall(1, v, is_ev)
    \/ SlotAllocateCheck(1)
    \/ SlotAllocateWrite(1)
    \/ \E s \in SlotIds, v \in DOMAIN vehicles : SlotAllocateDirect(1, s, v)
    \/ \E ticket_id \in Tickets : ReleaseSlot(1, ticket_id)
    \/ \E ticket_id \in Tickets : ProcessVehicleExitCall(1, ticket_id)
    \/ ProcessVehicleExitBody(1)

SpecExit == InitExit /\ [][NextExit]_vars

\* ------------------------------------------------------ status and lookups
\* get_system_status: `with self.lock:`.
GetSystemStatusCall(t) ==
    /\ pc[t] = "idle"
    /\ StartCall
    /\ CanAcquire(lock, t)
    /\ lock' = Acquire(lock, t)
    /\ pc' = [pc EXCEPT ![t] = "status"]
    /\ ret' = NoRet
    /\ UNCHANGED <<slots, vehicles, vip_passes, now, arg, found>>

\* get_system_status inside its section.  Each of its three queries enters
\* `with self.lock:` again and reads the pool as it is then.
\* `occupied_slots = self.get_occupied_slots()`
GetSystemStatusOccupied(t) ==
    /\ pc[t] = "status"
    /\ CanAcquire(lock, t)
    /\ arg' = [arg EXCEPT ![t].status.occupied_slots =
                    Cardinality(get_occupied_slots(slots))]
    /\ pc' = [pc EXCEPT ![t] = "status_counts"]
    /\ UNCHANGED <<slots, vehicles, vip_passes, lock, now, found, ret, calls>>

\* `available_counts = self.get_available_slots_count()`
GetSystemStatusCounts(t) ==
    /\ pc[t] = "status_counts"
    /\ CanAcquire(lock, t)
    /\ arg' = [arg EXCEPT ![t].status.available_counts =
                    get_available_slots_count(slots)]
    /\ pc' = [pc EXCEPT ![t] = "status_expired"]
    /\ UNCHANGED <<slots, vehicles, vip_passes, lock, now, found, ret, calls>>

\* `expired_slots = self.check_expired_slots()` and the dict that is returned.
GetSystemStatusBody(t) ==
    /\ pc[t] = "status_expired"
    /\ CanAcquire(lock, t)
    /\ lock' = Release(lock)
    /\ Return(t, [NoRet EXCEPT
            !.op = "get_system_status", !.success = TRUE,
            !.status =
                [arg[t].status EXCEPT
                    !.total_slots = Cardinality(DOMAIN slots),
                    !.available_slots = Cardinality(DOMAIN slots)
                                            - arg[t].status.occupied_slots,
                    !.expired_slots =
                        Cardinality(check_expired_slots(slots, vehicles, now))]])
    /\ UNCHANGED <<slots, vehicles, vip_passes, now, calls>>

\* The lookups, each one `with self.lock:` around a scan of self.slots.
GetAvailableSlotsCount(t) ==
    /\ pc[t] = "idle"
    /\ StartCall
    /\ CanAcquire(lock, t)
    /\ ret' = [NoRet EXCEPT !.op = "get_available_slots_count", !.thread = t,
                            !.time = now, !.success = TRUE,
                            !.status = [NoStatus EXCEPT !.available_counts =
                                            get_available_slots_count(slots)]]
    /\ UNCHANGED <<slots, vehicles, vip_passes, lock, now, pc, arg, found>>

GetOccupiedSlots(t) ==
    /\ pc[t] = "idle"
    /\ StartCall
    /\ CanAcquire(lock, t)
    /\ ret' = [NoRet EXCEPT !.op = "get_occupied_slots", !.thread = t, !.time = now,
                            !.success = TRUE, !.listed = get_occupied_slots(slots)]
    /\ UNCHANGED <<slots, vehicles, vip_passes, lock, now, pc, arg, found>>

\* get_slot_by_ticket with the body of release_slot, which differs from it
\* by the call of slot.release().
GetSlotByTicket_releasing(t, ticket_id) ==
    /\ pc[t] = "idle"
    /\ StartCall
    /\ CanAcquire(lock, t)
    /\ LET r == release_slot(slots, vehicles, ticket_id)
       IN  /\ slots' = r.slots
           /\ ret' = [NoRet EXCEPT !.op = "get_slot_by_ticket", !.thread = t,
                                   !.time = now, !.ticket = ticket_id, !.slot = r.slot,
                                   !.success = r.slot # NoSlot]
    /\ UNCHANGED <<vehicles, vip_passes, lock, now, pc, arg, found>>

GetSlotByTicket(t, ticket_id) ==
    /\ pc[t] = "idle"
    /\ StartCall
    /\ CanAcquire(lock, t)
    /\ LET slot == get_slot_by_ticket(slots, vehicles, ticket_id)
       IN  ret' = [NoRet EXCEPT !.op = "get_slot_by_ticket", !.thread = t, !.time = now,
                                !.ticket = ticket_id, !.slot = slot,
                                !.success = slot # NoSlot]
    /\ UNCHANGED <<slots, vehicles, vip_passes, lock, now, pc, arg, found>>

FindSlot(t, vehicle_type, customer_type, is_ev) ==
    /\ pc[t] = "idle"
    /\ StartCall
    /\ CanAcquire(lock, t)
    /\ LET slot == find_slot(slots, vehicle_type, customer_type, is_ev)
       IN  ret' = [NoRet EXCEPT !.op = "find_slot", !.thread = t, !.time = now,
                                !.is_ev = is_ev, !.slot = slot, !.success = slot # NoSlot]
    /\ UNCHANGED <<slots, vehicles, vip_passes, lock, now, pc, arg, found>>

InitStatus == InitFleet({1}, MaxCalls)

StepStatus(t) ==
    \/ Step(t)
    \/ GetSystemStatusCall(t)
    \/ GetSystemStatusOccupied(t)
    \/ GetSystemStatusCounts(t)
    \/ GetSystemStatusBody(t)
    \/ GetAvailableSlotsCount(t)
    \/ GetOccupiedSlots(t)
    \/ CheckExpiredSlots(t)
    \/ \E ticket_id \in Tickets : GetSlotByTicket(t, ticket_id)
    \/ \E vt \in VehicleTypes, ct \in CustomerTypes, is_ev \in BOOLEAN :
          FindSlot(t, vt, ct, is_ev)

NextStatus ==
    \/ \E t \in Threads : StepStatus(t)
    \/ FeeTick(StartHour + OverstayHours)

\* A thread that is inside an operation goes on: the scheduler is fair to
\* every thread.
Continue(t) ==
    \/ SlotAllocateCheck(t)
    \/ SlotAllocateWrite(t)
    \/ ProcessVehicleExitBody(t)
    \/ GetSystemStatusOccupied(t)
    \/ GetSystemStatusCounts(t)
    \/ GetSystemStatusBody(t)

\* Concurrent callers of the operations and the queries, fairly scheduled.
SpecStatus ==
    InitStatus /\ [][NextStatus]_vars /\ \A t \in Threads : WF_vars(Continue(t))


\* ------------------------------------------------- two exits, one ticket
\* Two threads park one Vehicle object and process its exit; each may present
\* the ticket the other has presented.
InitTwoExits == InitFleet({1}, MaxExitCalls)

StepTwoExits(t) ==
    \/ \E v \in DOMAIN vehicles, is_ev \in BOOLEAN : AllocateSlotCall(t, v, is_ev)
    \/ SlotAllocateCheck(t)
    \/ SlotAllocateWrite(t)
    \/ \E ticket_id \in Tickets : ProcessVehicleExitCall(t, ticket_id)
    \/ ProcessVehicleExitBody(t)

NextTwoExits == \E t \in Threads : StepTwoExits(t)

SpecTwoExits == InitTwoExits /\ [][NextTwoExits]_vars

\* -------------------------------------------------- park and leave at once
\* Slot.allocate's assignments for slot s and vehicle v at time t.
slot_allocate(S, V, s, v, t) ==
    [slots |-> [S EXCEPT ![s] = [vehicle |-> v, allocation_time |-> t,
                                 is_occupied |-> TRUE]],
     vehicles |-> [V EXCEPT ![v].allocation_time = t]]

\* A caller's allocate_slot(v, is_ev) that returns a slot, followed at once by
\* its process_vehicle_exit(v.ticket_id): no other call comes between.
AllocateThenExit(t, v, is_ev) ==
    /\ pc[t] = "idle"
    /\ calls > 1
    /\ calls' = calls - 2
    /\ CanAcquireNested(lock, t)
    /\ Len(vehicles[v].parking_sessions) < MaxSessions
    /\ LET slot == find_slot(slots, vehicles[v].vehicle_type,
                             vehicles[v].customer_type, is_ev)
       IN  /\ slot # NoSlot
           /\ LET a == slot_allocate(slots, vehicles, slot, v, now)
                  ticket_id == vehicles[v].ticket_id
                  x == process_vehicle_exit(a.slots, a.vehicles,
                           get_slot_by_ticket(a.slots, a.vehicles, ticket_id),
                           ticket_id, now)
              IN  /\ slots' = x.slots
                  /\ vehicles' = x.vehicles
                  /\ Return(t, [x.result EXCEPT !.is_ev = is_ev])
    /\ UNCHANGED <<vip_passes, lock, now>>

\* One caller allocates and releases, and parks and leaves at once.
NextRoundTrip ==
    \/ \E v \in DOMAIN vehicles, is_ev \in BOOLEAN : AllocateSlotCall(1, v, is_ev)
    \/ SlotAllocateCheck(1)
    \/ SlotAllocateWrite(1)
    \/ \E ticket_id \in Tickets : ReleaseSlot(1, ticket_id)
    \/ \E v \in DOMAIN vehicles, is_ev \in BOOLEAN : AllocateThenExit(1, v, is_ev)

SpecRoundTrip == Init /\ [][NextRoundTrip]_vars

\* =================================================================== claims
PartitionSlots(vehicle_type, section) ==
    {s \in SlotIds : s.vehicle_type = vehicle_type /\ s.section = section}

OccupiedIn(vehicle_type, section) ==
    {s \in PartitionSlots(vehicle_type, section) : slots[s].is_occupied}

\* The slots __init__ creates in one (vehicle type, section) partition, and in all.
PartitionSize(section) == Cardinality(Levels) * SlotsPerSection(section)

TotalSlots == Cardinality(Levels) * Cardinality(VehicleTypes)
                  * (RegularSlots + VipSlots + EvSlots)

RECURSIVE SumOver(_, _)
SumOver(f, D) ==
    IF D = {} THEN 0
    ELSE LET x == CHOOSE y \in D : TRUE IN f[x] + SumOver(f, D \ {x})

\* The sum of all entries of get_available_slots_count().
AvailableTotal ==
    LET counts == get_available_slots_count(slots)
    IN  SumOver([vt \in VehicleTypes |-> SumOver(counts[vt], Sections)], VehicleTypes)

\* C1: in every reachable state occupied + available = total slots, for the
\* pool and inside every (vehicle type, section) partition, with available as
\* get_available_slots_count reports it.
C1_Capacity ==
    /\ Cardinality(get_occupied_slots(slots)) + AvailableTotal = TotalSlots
    /\ \A vt \in VehicleTypes, sec \in Sections :
          Cardinality(OccupiedIn(vt, sec)) + get_available_slots_count(slots)[vt][sec]
              = PartitionSize(sec)

\* A partition with one slot occupied and another free, after a release.
C1_Witness ==
    /\ ret.op \in {"release_slot", "process_vehicle_exit"} /\ ret.success
    /\ \E vt \in VehicleTypes, sec \in Sections :
          /\ OccupiedIn(vt, sec) # {}
          /\ get_available_slots_count(slots)[vt][sec] > 0

\* C2: under any interleaving of the threads' calls a slot is written as
\* occupied only when it was unoccupied, so a bound vehicle is never
\* overwritten, and a successful allocate_slot returns a slot that was free
\* before it was bound and now holds the caller's vehicle.
C2_NoDoubleBind ==
    [][/\ \A s \in SlotIds :
             (slots'[s] # slots[s] /\ slots'[s].is_occupied) => ~slots[s].is_occupied
       /\ (ret' # ret /\ ret'.op = "allocate_slot" /\ ret'.success)
             => /\ ~slots[ret'.slot].is_occupied
                /\ slots'[ret'.slot].is_occupied
                /\ slots'[ret'.slot].vehicle = ret'.vehicle]_vars

\* Both threads have allocated: thread 2 returns with a slot while another
\* slot, bound earlier, still holds a different vehicle.
C2_Witness ==
    /\ ret.op = "allocate_slot" /\ ret.success /\ ret.thread = 2
    /\ \E s \in SlotIds : /\ s # ret.slot
                          /\ slots[s].is_occupied
                          /\ slots[s].vehicle # ret.vehicle
                          /\ s.vehicle_type = ret.slot.vehicle_type

\* C3: no Vehicle object is bound to more than one slot at a time.
SlotsOf(v) == {s \in SlotIds : slots[s].is_occupied /\ slots[s].vehicle = v}

C3_OneSlotPerVehicle ==
    \A v \in DOMAIN vehicles : Cardinality(SlotsOf(v)) <= 1


\* C4: with entry requests that validate and then allocate, no two occupied
\* slots hold Regular vehicles with the same license plate.
C4_OneSessionPerRegular ==
    \A s1, s2 \in SlotIds :
        (/\ s1 # s2
         /\ slots[s1].is_occupied /\ slots[s2].is_occupied
         /\ vehicles[slots[s1].vehicle].customer_type = "Regular"
         /\ vehicles[slots[s2].vehicle].customer_type = "Regular")
        => vehicles[slots[s1].vehicle].license_plate
               # vehicles[slots[s2].vehicle].license_plate

\* C5: allocate_slot binds a vehicle only if validate_vehicle_entry allows
\* it in the state in which it is bound.
C5_AllocateValidates ==
    \A t \in Threads :
        pc[t] = "allocate_write"
            => validate_vehicle_entry(slots, vehicles, arg[t].vehicle, now).can_enter

\* The priority table: the order in which the sections are tried.
PriorityTable(is_ev, customer_type) ==
    CASE is_ev /\ customer_type = "VIP" -> <<"EV", "VIP", "Regular">>
      [] is_ev /\ customer_type = "Regular" -> <<"EV", "Regular", "VIP">>
      [] ~is_ev /\ customer_type = "VIP" -> <<"VIP", "Regular", "EV">>
      [] OTHER -> <<"Regular", "EV", "VIP">>

FreeIn(vehicle_type, section) ==
    {s \in PartitionSlots(vehicle_type, section) : ~slots[s].is_occupied}

FreeOfType(vehicle_type) ==
    {s \in SlotIds : s.vehicle_type = vehicle_type /\ ~slots[s].is_occupied}

C7_NotAvailableIff ==
    /\ \A t \in Threads :
          pc[t] = "allocate" =>
              LET vt == vehicles[arg[t].vehicle].vehicle_type
              IN  /\ found[t] = NoSlot <=> FreeOfType(vt) = {}
                  /\ found[t] # NoSlot => found[t] \in FreeOfType(vt)
    /\ ret.op = "allocate_slot" =>
          LET vt == vehicles[ret.vehicle].vehicle_type
          IN  /\ ret.success <=> ret.slot # NoSlot
              /\ ~ret.success => FreeOfType(vt) = {}
              /\ ret.success => /\ ret.slot.vehicle_type = vt
                                /\ slots[ret.slot].is_occupied
                                /\ slots[ret.slot].vehicle = ret.vehicle

\* allocate_slot has returned None: every slot of the type is occupied.
C7_Witness ==
    /\ ret.op = "allocate_slot"
    /\ ~ret.success
    /\ FreeOfType(vehicles[ret.vehicle].vehicle_type) = {}

\* C8: the slot found has the lowest level among the free slots of the
\* requested type in its section.
C8_LowestLevel ==
    \A t \in Threads :
        (pc[t] = "allocate" /\ found[t] # NoSlot) =>
            \A u \in FreeIn(vehicles[arg[t].vehicle].vehicle_type, found[t].section) :
                found[t].level <= u.level

\* A Level-1 slot is found while a Level-2 slot of its section is free too.
C8_Witness ==
    /\ pc[1] = "allocate"
    /\ found[1] # NoSlot
    /\ found[1].level = 1
    /\ \E u \in FreeIn(vehicles[arg[1].vehicle].vehicle_type, found[1].section) :
          u.level = 2

\* C9: once a ticket has been released, no occupied slot holds it, so that a
\* later release of it finds nothing.
C9_ReleasedTicketGone ==
    (ret.op \in {"release_slot", "process_vehicle_exit"} /\ ret.success)
        => TicketSlots(slots, vehicles, ret.ticket) = {}

\* C10: after can_re_enter with the re-entry window elapsed the counter is 0,
\* and validate_vehicle_entry denies for re-entries only inside the window.
WindowElapsed(v, t) == v.last_re_entry # NoTime /\ t - v.last_re_entry > ReEntryWindow

C10_ResetAfterWindow ==
    /\ (ret.op = "can_re_enter" /\ WindowElapsed(vehicles[ret.vehicle], ret.time))
          => vehicles[ret.vehicle].re_entry_count = 0
    /\ (ret.op = "validate_vehicle_entry" /\ ret.reason = "Maximum re-entries exceeded")
          => ~WindowElapsed(vehicles[ret.vehicle], ret.time)


\* The checks of validate_vehicle_entry, as the policy states them, for
\* vehicle record v asking at time t with the pool as it is.
IsPeakHour(t) == (t % 24 >= 9 /\ t % 24 <= 11) \/ (t % 24 >= 17 /\ t % 24 <= 19)

PlateParked(plate) ==
    \E s \in SlotIds : slots[s].is_occupied
                       /\ vehicles[slots[s].vehicle].license_plate = plate

FailsSuspended(v) == v.is_suspended
FailsPeakHour(v, t) == v.vehicle_type = "Large" /\ IsPeakHour(t)
FailsReEntry(v) == v.re_entry_count >= 3
FailsAlreadyParked(v) == v.customer_type = "Regular" /\ PlateParked(v.license_plate)

\* C11: the reason validate_vehicle_entry returns is that of the first failing
\* check in the order suspended, peak hour, re-entry, already parked, and
\* entry is allowed exactly when no check fails.
C11_FirstFailureWins ==
    (ret.op = "validate_vehicle_entry") =>
        LET v == vehicles[ret.vehicle]
        IN  ret.reason =
              IF FailsSuspended(v) THEN "Vehicle suspended"
              ELSE IF FailsPeakHour(v, ret.time)
                   THEN "Large vehicles restricted during peak hours"
              ELSE IF FailsReEntry(v) THEN "Maximum re-entries exceeded"
              ELSE IF FailsAlreadyParked(v) THEN "Vehicle already parked"
              ELSE "Entry allowed"

\* A vehicle that fails all four checks at once is reported as suspended.
C11_Witness ==
    /\ ret.op = "validate_vehicle_entry"
    /\ FailsSuspended(vehicles[ret.vehicle])
    /\ FailsPeakHour(vehicles[ret.vehicle], ret.time)
    /\ FailsReEntry(vehicles[ret.vehicle])
    /\ FailsAlreadyParked(vehicles[ret.vehicle])
    /\ ret.reason = "Vehicle suspended"


\* C12: a Regular vehicle that passes the earlier checks is denied with
\* 'Vehicle already parked' exactly when an occupied slot holds a vehicle with
\* its license plate; that reason is given to Regular vehicles only, and a VIP
\* vehicle is allowed whatever is parked under its plate.
C12_AlreadyParkedRegularOnly ==
    (ret.op = "validate_vehicle_entry") =>
        LET v == vehicles[ret.vehicle]
            earlier == FailsSuspended(v) \/ FailsPeakHour(v, ret.time) \/ FailsReEntry(v)
        IN  /\ (v.customer_type = "Regular" /\ ~earlier)
                  => (ret.reason = "Vehicle already parked"
                          <=> PlateParked(v.license_plate))
            /\ ret.reason = "Vehicle already parked"
                  => (v.customer_type = "Regular" /\ PlateParked(v.license_plate))
            /\ (v.customer_type = "VIP" /\ ~earlier) => ret.success

\* A VIP vehicle is allowed to enter while another vehicle with its plate is
\* parked.
C12_Witness ==
    /\ ret.op = "validate_vehicle_entry"
    /\ ret.success
    /\ vehicles[ret.vehicle].customer_type = "VIP"
    /\ \E s \in SlotIds : /\ slots[s].is_occupied
                          /\ slots[s].vehicle # ret.vehicle
                          /\ vehicles[slots[s].vehicle].license_plate
                                 = vehicles[ret.vehicle].license_plate

\* C13: a validate_vehicle_entry that denies entry leaves every slot, the
\* pass registry and every field of every vehicle record as they were.
C13_DeniedChangesNothing ==
    [][(calls' < calls /\ ret'.op = "validate_vehicle_entry" /\ ~ret'.success)
          => (slots' = slots /\ vip_passes' = vip_passes /\ vehicles' = vehicles)]_vars


\* The expiry rule as the policy states it, for slot s at time t.
ExpiredAsStated(s, t) ==
    /\ slots[s].is_occupied
    /\ slots[s].allocation_time # NoTime
    /\ LET v == vehicles[slots[s].vehicle]
           elapsed == t - slots[s].allocation_time
           active == v.customer_type = "VIP" /\ v.vip_pass_expiry # NoTime
                                             /\ t < v.vip_pass_expiry
       IN  /\ ~active
           /\ elapsed > (IF v.customer_type = "Regular" THEN 24 ELSE 30 * 24)

ExitDone == ret.op = "process_vehicle_exit" /\ ret.success
ExitElapsed == ret.time - slots[ret.slot].allocation_time
ExitVehicle == vehicles[ret.vehicle]

\* The prices of the policy, in hundredths of a rupee.
DailyRate(vehicle_type) ==
    CASE vehicle_type = "Small" -> 50 * 100
      [] vehicle_type = "Medium" -> 100 * 100
      [] vehicle_type = "Large" -> 150 * 100

MembershipRate(vehicle_type) ==
    CASE vehicle_type = "Small" -> 1050 * 100
      [] vehicle_type = "Medium" -> 2100 * 100
      [] vehicle_type = "Large" -> 3150 * 100

\* min((elapsed - limit) x 25, 500) once the limit is exceeded.
Surcharge(elapsed, customer_type) ==
    LET limit == IF customer_type = "Regular" THEN 24 ELSE 720
        excess == (elapsed - limit) * 25 * 100
    IN  IF elapsed <= limit THEN 0
        ELSE IF excess < 500 * 100 THEN excess ELSE 500 * 100

PassActiveAt(v, t) ==
    v.customer_type = "VIP" /\ v.vip_pass_expiry # NoTime /\ t < v.vip_pass_expiry

\* C15 (as claimed): a Regular vehicle pays its daily rate for every day
\* begun, at least one, plus the overstay surcharge.
C15_WholeDaysRoundedUp ==
    (ExitDone /\ ExitVehicle.customer_type = "Regular") =>
        LET days == IF ExitElapsed <= 24 THEN 1 ELSE (ExitElapsed + 23) \div 24
        IN  ret.base_fee = DailyRate(ExitVehicle.vehicle_type) * days
                             + Surcharge(ExitElapsed, "Regular")

\* C15 (amended): a Regular vehicle pays its daily rate times
\* max(1, elapsed hours / 24), a fraction of a day counting as that fraction,
\* rounded to hundredths, plus the overstay surcharge.
C15_FractionalDays ==
    (ExitDone /\ ExitVehicle.customer_type = "Regular") =>
        LET hours == IF ExitElapsed <= 24 THEN 24 ELSE ExitElapsed
            rate == DailyRate(ExitVehicle.vehicle_type)
            \* rate * hours / 24 to the nearest hundredth
            charge == (2 * rate * hours + 24) \div (2 * 24)
        IN  ret.base_fee = charge + Surcharge(ExitElapsed, "Regular")

\* A Medium vehicle leaves after 30 hours and is charged 125 + 150.
C15_Witness ==
    /\ ExitDone
    /\ ExitVehicle.customer_type = "Regular"
    /\ ExitVehicle.vehicle_type = "Medium"
    /\ ExitElapsed = 30
    /\ ret.base_fee = 27500


\* What calculate_fee charges before the surcharge: nothing with an active
\* pass, the membership rate for a VIP without one, days used for a Regular.
ChargeBeforeSurcharge(v, elapsed, t) ==
    IF PassActiveAt(v, t) THEN 0
    ELSE IF v.customer_type = "VIP" THEN MembershipRate(v.vehicle_type)
    ELSE LET hours == IF elapsed <= 24 THEN 24 ELSE elapsed
         IN  (2 * DailyRate(v.vehicle_type) * hours + 24) \div (2 * 24)

C17_FeeMonotone ==
    \A s \in SlotIds :
        slots[s].is_occupied =>
            /\ calculate_fee(slots[s], vehicles, now) >= 0
            /\ \A t2 \in FeeClock :
                  (/\ t2 >= now
                   /\ PassActiveAt(vehicles[slots[s].vehicle], t2)
                          <=> PassActiveAt(vehicles[slots[s].vehicle], now))
                  => calculate_fee(slots[s], vehicles, now)
                         <= calculate_fee(slots[s], vehicles, t2)

\* A vehicle parked for a day whose fee is strictly larger an hour later.
C17_Witness ==
    \E s \in SlotIds :
        /\ slots[s].is_occupied
        /\ now - slots[s].allocation_time = 24
        /\ now + 1 \in FeeClock
        /\ calculate_fee(slots[s], vehicles, now)
               < calculate_fee(slots[s], vehicles, now + 1)

\* C18: the base_fee of the exit of a VIP vehicle whose pass is active at the
\* exit is 0, whatever the time elapsed.
C18_ActivePassFree ==
    (ExitDone /\ PassActiveAt(ExitVehicle, ret.time)) => ret.base_fee = 0

\* C19: after a successful allocate_slot for a VIP vehicle without an active
\* pass, the pass registry holds its plate with expiry 30 days after the
\* allocation.
C19_PassRegistered ==
    (/\ ret.op = "allocate_slot" /\ ret.success
     /\ vehicles[ret.vehicle].customer_type = "VIP"
     /\ ~PassActiveAt(vehicles[ret.vehicle], ret.time))
    => vip_passes[vehicles[ret.vehicle].license_plate] = ret.time + 30 * 24

\* C20: a VIP vehicle without a pass that leaves within its time limit pays
\* the membership rate of its size (1050 / 2100 / 3150) as base fee, whatever
\* the time elapsed, and no re-entry fee when it has no re-entries.
C20_FlatMembershipRate ==
    (/\ ExitDone
     /\ ExitVehicle.customer_type = "VIP"
     /\ ExitVehicle.vip_pass_expiry = NoTime
     /\ ExitElapsed <= 720)
    => /\ ret.base_fee = MembershipRate(ExitVehicle.vehicle_type)
       /\ ExitVehicle.re_entry_count = 0 => ret.re_entry_fee = 0

\* A Small VIP vehicle without a pass leaves after 30 days and pays 1050.
C20_Witness ==
    /\ ExitDone
    /\ ExitVehicle.customer_type = "VIP"
    /\ ExitVehicle.vehicle_type = "Small"
    /\ ExitVehicle.vip_pass_expiry = NoTime
    /\ ExitElapsed = 720
    /\ ret.base_fee = 1050 * 100
    /\ ret.re_entry_fee = 0


\* The overstay warnings issued by exits to the vehicles presented under a
\* license plate.
PlateWarnings(plate) ==
    SumOver([v \in DOMAIN vehicles |->
                IF vehicles[v].license_plate = plate
                THEN vehicles[v].warnings_issued ELSE 0], DOMAIN vehicles)

\* C21: an exit adds one warning to the vehicle when the slot is expired at
\* the exit and none otherwise, and once the exits under a license plate have
\* issued three warnings every validate_vehicle_entry for that plate is
\* denied as suspended.
C21_WarningsSuspendPlate ==
    /\ [][\A t \in Threads :
            (pc[t] = "exit" /\ pc'[t] = "idle" /\ ret'.success) =>
                LET v == slots[found[t]].vehicle
                IN  vehicles'[v].warnings_issued =
                        vehicles[v].warnings_issued
                          + (IF ExpiredAsStated(found[t], now) THEN 1 ELSE 0)]_vars
    /\ [](ret.op = "validate_vehicle_entry"
             /\ PlateWarnings(vehicles[ret.vehicle].license_plate) >= 3
          => ret.reason = "Vehicle suspended")


\* C22: a successful process_vehicle_exit returns total_fee = base_fee +
\* re_entry_fee with re_entry_fee 20 for a vehicle with re-entries and 0
\* otherwise, appends one session (allocation time, exit time, slot id), adds
\* total_fee to total_fees_paid and leaves the slot unoccupied and unbound.
C22_ExitResult ==
    [][\A t \in Threads :
          (pc[t] = "exit" /\ pc'[t] = "idle" /\ ret'.success) =>
              LET s == found[t]
                  v == slots[s].vehicle
              IN  /\ ret'.total_fee = ret'.base_fee + ret'.re_entry_fee
                  /\ ret'.re_entry_fee =
                        (IF vehicles[v].re_entry_count > 0 THEN 20 * 100 ELSE 0)
                  /\ vehicles'[v].parking_sessions =
                        Append(vehicles[v].parking_sessions,
                               <<slots[s].allocation_time, now, s>>)
                  /\ vehicles'[v].total_fees_paid
                        = vehicles[v].total_fees_paid + ret'.total_fee
                  /\ ret'.slot = s
                  /\ ~slots'[s].is_occupied
                  /\ slots'[s].vehicle = NoVehicle]_vars

\* The exit of a vehicle with a re-entry: 20 is added to the base fee.
C22_Witness ==
    /\ ExitDone
    /\ ExitVehicle.re_entry_count > 0
    /\ ret.re_entry_fee = 20 * 100
    /\ ret.total_fee = ret.base_fee + 20 * 100
    /\ Len(ExitVehicle.parking_sessions) = 1
    /\ ExitVehicle.total_fees_paid = ret.total_fee


\* C28: Slot.allocate on an occupied slot leaves the slot as it is and ends
\* with an error outcome, not with the plain refusal that is also the answer
\* when no slot is available.
C28_OccupiedFailsLoudly ==
    [][(calls' < calls /\ ret'.op = "Slot.allocate" /\ slots[ret'.slot].is_occupied)
          => (slots' = slots /\ ret'.reason # "")]_vars

\* C29: a successful release_slot(ticket) changes exactly one slot, one that
\* was occupied by a vehicle carrying the ticket: its vehicle becomes null and
\* is_occupied false, its allocation_time is kept, and afterwards no occupied
\* slot holds the ticket.
C29_ReleaseFrame ==
    [][(calls' < calls /\ ret'.op = "release_slot" /\ ret'.success) =>
          LET s == ret'.slot
          IN  /\ slots[s].is_occupied
              /\ vehicles[slots[s].vehicle].ticket_id = ret'.ticket
              /\ slots'[s] = [vehicle |-> NoVehicle,
                              allocation_time |-> slots[s].allocation_time,
                              is_occupied |-> FALSE]
              /\ \A u \in SlotIds \ {s} : slots'[u] = slots[u]
              /\ TicketSlots(slots', vehicles', ret'.ticket) = {}]_vars

\* C30: a vehicle's allocation_time, once set, is never written with another
\* value, and it is set to the allocation_time of the slot it is bound to.
C30_AllocationTimeOnce ==
    [][\A v \in DOMAIN vehicles :
          /\ vehicles[v].allocation_time # NoTime
                => vehicles'[v].allocation_time = vehicles[v].allocation_time
          /\ vehicles'[v].allocation_time # vehicles[v].allocation_time
                => \E s \in SlotIds : /\ slots'[s].vehicle = v
                                      /\ slots'[s].allocation_time
                                             = vehicles'[v].allocation_time]_vars


\* A thread is inside a `with self.lock:` section of a pool operation.
InSection(t) ==
    pc[t] \in {"allocate", "allocate_write", "exit",
              "status", "status_counts", "status_expired"}

\* C23: a thread inside a section of a pool operation holds the lock, so at
\* most one thread is inside one, and every step that writes slot or vehicle
\* state is taken by a thread that holds the lock or takes it free, while no
\* other thread is inside a section.
C23_MutualExclusion ==
    /\ [](\A t \in Threads : InSection(t) => (lock.owner = t /\ lock.count >= 1))
    /\ [](Cardinality({t \in Threads : InSection(t)}) <= 1)
    /\ [][(slots' # slots \/ vehicles' # vehicles) =>
             /\ lock.owner \in {NoThread, ret'.thread}
             /\ \A u \in Threads \ {ret'.thread} : ~InSection(u)]_vars

\* Thread 2 is about to write a slot under the lock after another slot was
\* bound.
C23_Witness ==
    /\ pc[2] = "allocate_write"
    /\ lock.owner = 2
    /\ pc[1] = "idle"
    /\ \E s \in SlotIds : slots[s].is_occupied

\* C25: in every state every slot is occupied exactly when it has a bound
\* vehicle.
C25_OccupiedIffBound ==
    \A s \in SlotIds : slots[s].is_occupied <=> slots[s].vehicle # NoVehicle

\* One slot is bound and another has been released.
C25_Witness ==
    /\ \E s \in SlotIds : slots[s].is_occupied /\ slots[s].vehicle # NoVehicle
    /\ \E s \in SlotIds : /\ ~slots[s].is_occupied
                          /\ slots[s].allocation_time # NoTime
                          /\ slots[s].vehicle = NoVehicle

QueryOps == {"get_system_status", "get_available_slots_count", "get_occupied_slots",
             "check_expired_slots", "get_slot_by_ticket", "find_slot"}

\* C27: a step of get_system_status, get_available_slots_count,
\* get_occupied_slots, check_expired_slots, get_slot_by_ticket or find_slot
\* leaves every slot, every vehicle record and the pass registry unchanged.
C27_QueriesReadOnly ==
    [][(\/ calls' < calls /\ ret'.op \in QueryOps
        \/ \E t \in Threads :
              \/ pc[t] \in {"status", "status_counts", "status_expired"}
              \/ pc'[t] = "status")
          => (slots' = slots /\ vehicles' = vehicles /\ vip_passes' = vip_passes)]_vars

\* A lookup by ticket has found an occupied slot, which is still occupied.
C27_Witness ==
    /\ ret.op = "get_slot_by_ticket"
    /\ ret.success
    /\ slots[ret.slot].is_occupied
    /\ vehicles[slots[ret.slot].vehicle].ticket_id = ret.ticket


\* C31: inside allocate_slot the slot find_slot returned is unoccupied when
\* Slot.allocate tests and writes it, whatever the other callers do, and
\* allocate_slot returns None only when find_slot returned None, the pool
\* holding no free slot for the request.
C31_RejectionUnreachable ==
    /\ [](\A t \in Threads :
            (pc[t] \in {"allocate", "allocate_write"} /\ found[t] # NoSlot)
                => ~slots[found[t]].is_occupied)
    /\ [][\A t \in Threads :
            (pc[t] = "allocate" /\ pc'[t] = "idle") =>
                /\ ~ret'.success
                /\ found[t] = NoSlot
                /\ find_slot(slots, vehicles[arg[t].vehicle].vehicle_type,
                             vehicles[arg[t].vehicle].customer_type,
                             arg[t].is_ev) = NoSlot]_vars

\* Thread 2 was refused a slot: every slot of the vehicle's type is occupied.
C31_Witness ==
    /\ ret.op = "allocate_slot"
    /\ ~ret.success
    /\ ret.thread = 2
    /\ \A s \in SlotIds :
          s.vehicle_type = vehicles[ret.vehicle].vehicle_type => slots[s].is_occupied


\* The order the allocation flowchart of the documentation draws for an EV
\* request: EV section, then VIP section, then Regular section.
FlowchartEvOrder == <<"EV", "VIP", "Regular">>

\* C32: an EV request of any customer type that finds the EV section full is
\* given a VIP slot if one of its type is free, and a Regular slot only if
\* none is.
C32_EvFallbackFlowchart ==
    \A t \in Threads :
        (pc[t] = "allocate" /\ arg[t].is_ev) =>
            LET v == vehicles[arg[t].vehicle]
                open == {i \in 1..3 : FreeIn(v.vehicle_type, FlowchartEvOrder[i]) # {}}
            IN  open # {} =>
                    LET first == CHOOSE i \in open : \A j \in open : i <= j
                    IN  found[t] \in FreeIn(v.vehicle_type, FlowchartEvOrder[first])


C34_NoDuplicateExit ==
    [][\A t \in Threads :
          /\ (pc[t] = "exit" /\ pc'[t] = "idle") =>
                LET v == ret'.vehicle
                IN  /\ ret'.success
                    /\ ret'.thread = t
                    /\ ~slots'[ret'.slot].is_occupied
                    /\ Len(vehicles'[v].parking_sessions) =
                           Len(vehicles[v].parking_sessions) + 1
                    /\ vehicles'[v].total_fees_paid =
                           vehicles[v].total_fees_paid + ret'.total_fee
          /\ (/\ ret.op = "process_vehicle_exit" /\ ret.success /\ ret.thread # t
              /\ pc[t] = "idle" /\ calls' < calls
              /\ \/ pc'[t] = "exit" /\ arg'[t].ticket = ret.ticket
                 \/ /\ ret'.op = "process_vehicle_exit" /\ ret'.thread = t
                    /\ ret'.ticket = ret.ticket)
                => /\ pc'[t] = "idle"
                   /\ ~ret'.success
                   /\ ret'.reason = "Ticket not found"
                   /\ vehicles' = vehicles
                   /\ slots' = slots]_vars


\* The sum of all entries of the available_counts of a status.
CountsTotal(st) ==
    SumOver([vt \in VehicleTypes |-> SumOver(st.available_counts[vt], Sections)],
            VehicleTypes)

\* C35: every result of get_system_status is one snapshot of the pool:
\* occupied + available = total, the entries of available_counts add up to
\* available, and no more slots are expired than occupied.
C35_ConsistentSnapshot ==
    ret.op = "get_system_status" =>
        /\ ret.status.total_slots = TotalSlots
        /\ ret.status.occupied_slots + ret.status.available_slots
               = ret.status.total_slots
        /\ CountsTotal(ret.status) = ret.status.available_slots
        /\ ret.status.expired_slots <= ret.status.occupied_slots

\* A status taken by thread 2 counts an occupied slot that has expired.
C35_Witness ==
    /\ ret.op = "get_system_status"
    /\ ret.thread = 2
    /\ ret.status.occupied_slots > 0
    /\ ret.status.expired_slots > 0


\* C36: in the result of every successful exit, overstay is true exactly
\* when the base fee holds a surcharge above the pass, membership or daily
\* charge.
C36_OverstayIffSurcharge ==
    ExitDone =>
        (ret.overstay <=>
            ret.base_fee - ChargeBeforeSurcharge(ExitVehicle, ExitElapsed, ret.time) > 0)


\* C37: a vehicle record is suspended exactly when it has been issued three
\* or more warnings; its warnings never decrease and its suspension is never
\* lifted, and every validate_vehicle_entry of a suspended record is denied.
C37_SuspendedIffThreeWarnings ==
    /\ [](\A v \in DOMAIN vehicles :
            vehicles[v].is_suspended <=> vehicles[v].warnings_issued >= 3)
    /\ [][/\ \A v \in DOMAIN vehicles :
                /\ vehicles'[v].warnings_issued >= vehicles[v].warnings_issued
                /\ vehicles[v].is_suspended => vehicles'[v].is_suspended
          /\ (/\ calls' < calls
              /\ ret'.op = "validate_vehicle_entry"
              /\ vehicles[ret'.vehicle].is_suspended)
                => (~ret'.success /\ ret'.reason = "Vehicle suspended")]_vars

\* A record with three warnings has been denied entry as suspended.
C37_Witness ==
    /\ ret.op = "validate_vehicle_entry"
    /\ ~ret.success
    /\ ret.reason = "Vehicle suspended"
    /\ vehicles[ret.vehicle].warnings_issued = 3
    /\ vehicles[ret.vehicle].is_suspended


\* C38: an allocate_slot that returns a slot, followed at once by the
\* process_vehicle_exit of the vehicle's ticket, leaves the occupied flag and
\* the vehicle of every slot as before the allocation, and the allocation
\* time of every slot but the one used; the request would find the same slot
\* again.
C38_RoundTrip ==
    [][calls' = calls - 2 =>
          LET v == vehicles[ret'.vehicle]
              used == find_slot(slots, v.vehicle_type, v.customer_type, ret'.is_ev)
          IN  /\ \A s \in SlotIds :
                    /\ slots'[s].is_occupied = slots[s].is_occupied
                    /\ slots'[s].vehicle = slots[s].vehicle
                    /\ s # used => slots'[s].allocation_time = slots[s].allocation_time
              /\ find_slot(slots', v.vehicle_type, v.customer_type, ret'.is_ev) = used]_vars

====
